---- MODULE Spec2Model ----
(***************************************************************************)
(* QuickFileOpenService of packages/file-search/src/browser/              *)
(* quick-file-open.ts: the query splitter (splitFilterAndRange), the      *)
(* result comparator (compareItems), the asynchronous onType / search     *)
(* completion / open / close orchestration around them, and openFile.     *)
(*                                                                         *)
(* JavaScript strings are sequences of one-character strings, so that     *)
(* trim, toLowerCase, indexOf, includes, split, localeCompare, parseInt   *)
(* and the regular expression are computed character by character.        *)
(***************************************************************************)
EXTENDS Integers, Sequences, FiniteSets, TLC

VARIABLES
    isOpen,            \* this.isOpen
    hideIgnoredFiles,  \* this.hideIgnoredFiles
    filterAndRange,    \* this.filterAndRange
    cancelIndicator,   \* this.cancelIndicator: the id of the current token source
    cancelled,         \* the tokens whose isCancellationRequested is true
    pending,           \* the fileSearchService.find promises not yet resolved
    accepted,          \* the latest call of an acceptor, and how many there were
    typed,             \* the number of onType calls so far
    skipped,           \* the number of handler runs that returned at the token check
    lastType,          \* history: the arguments of the latest onType call of the
                       \* session, none once open() has started a new session
    handled,           \* history: the handler run that made the latest acceptor call
    opening,           \* the openFile calls whose opener promise is not yet settled
    opened,            \* the outcome of the latest openFile call that settled
    navigation,        \* navigationLocationService.locations(), the oldest first
    roots,             \* workspaceService.tryGetRoots()
    fuzzy,             \* the fuzzy primitive, for the current query: string -> result
    cmpCall,           \* the arguments of the compareItems call applied
    cmpOut,            \* what that call returned
    expression,        \* the argument of the splitFilterAndRange call
    splitOut           \* what that call returned

vars == << isOpen, hideIgnoredFiles, filterAndRange, cancelIndicator, cancelled,
           pending, accepted, typed, skipped, lastType, handled, opening, opened,
           navigation, roots, fuzzy, cmpCall, cmpOut, expression, splitOut >>

openerVars == << opening, opened >>

workspaceVars == << navigation, roots >>

serviceVars == << isOpen, hideIgnoredFiles, cancelIndicator, cancelled, pending,
                  accepted, typed, skipped, lastType, handled, openerVars,
                  workspaceVars >>

-----------------------------------------------------------------------------
(* Characters and the String methods the service calls.                    *)

Digits == {"0", "1", "2", "3", "4", "5", "6", "7", "8", "9"}

DigitValue == [c \in Digits |->
    CASE c = "0" -> 0 [] c = "1" -> 1 [] c = "2" -> 2 [] c = "3" -> 3
      [] c = "4" -> 4 [] c = "5" -> 5 [] c = "6" -> 6 [] c = "7" -> 7
      [] c = "8" -> 8 [] c = "9" -> 9]

\* \s and \d of the regular expressions, and of String.prototype.trim
Whitespace == {" ", "\t"}
IsWhitespace(c) == c \in Whitespace
IsDigit(c) == c \in Digits

SetMin(S) == CHOOSE x \in S : \A y \in S : x <= y
SetMax(S) == CHOOSE x \in S : \A y \in S : x >= y

\* str.trim()
Trim(str) ==
    LET kept == {i \in 1..Len(str) : ~IsWhitespace(str[i])}
    IN  IF kept = {} THEN << >> ELSE SubSeq(str, SetMin(kept), SetMax(kept))

LowerOf(c) ==
    CASE c = "A" -> "a" [] c = "B" -> "b" [] c = "X" -> "x" [] OTHER -> c

\* str.toLowerCase()
ToLowerCase(str) == [i \in 1..Len(str) |-> LowerOf(str[i])]

\* str.indexOf(part): the 0-based index of the first occurrence, -1 if none
IndexOf(str, part) ==
    LET at == {i \in 0..(Len(str) - Len(part)) :
                  SubSeq(str, i + 1, i + Len(part)) = part}
    IN  IF at = {} THEN -1 ELSE SetMin(at)

\* str.includes(part)
Includes(str, part) == IndexOf(str, part) # -1

\* whether part stands in str at the 1-based position p
StartsWithAt(str, p, part) ==
    /\ p + Len(part) - 1 <= Len(str)
    /\ SubSeq(str, p, p + Len(part) - 1) = part

\* (mutant of Substr0: the character before the index is dropped as well)
Substr0Short(str, index) == SubSeq(str, 1, index - 1)

\* expression.substr(0, index)
Substr0(str, index) == SubSeq(str, 1, index)

\* the first position q >= p of str that is past the end or holds no character
\* of the class
RunEnd(str, p, class) ==
    LET stop == {q \in p..Len(str) : str[q] \notin class}
    IN  IF stop = {} THEN Len(str) + 1 ELSE SetMin(stop)

-----------------------------------------------------------------------------
(* splitFilterAndRange                                                      *)

NaN == [nan |-> TRUE, value |-> 0]
Num(n) == [nan |-> FALSE, value |-> n]

RECURSIVE DecimalValue(_)
DecimalValue(ds) ==
    IF ds = << >> THEN 0
    ELSE 10 * DecimalValue(SubSeq(ds, 1, Len(ds) - 1)) + DigitValue[ds[Len(ds)]]

\* parseInt(str, 10) of a string without sign or leading blanks: the value of
\* its leading digits, NaN when it has none
ParseInt(str) ==
    LET e == RunEnd(str, 1, Digits)
    IN  IF e = 1 THEN NaN ELSE Num(DecimalValue(SubSeq(str, 1, e - 1)))

\* (mutant of IsFinite: NaN passes for a number)
IsFiniteAlways(n) == TRUE

\* Number.isFinite
IsFinite(n) == ~n.nan

\* Position.create, Range.create; `undefined' is the range with defined FALSE
Position(line, character) == [line |-> line, character |-> character]
Range(start, end) == [defined |-> TRUE, start |-> start, end |-> end]
UndefinedRange == [defined |-> FALSE, start |-> Position(0, 0), end |-> Position(0, 0)]

FirstSeparators == {"#", ":", "("}
SecondSeparators == {"#", ":", ","}
IsFirstSeparator(c) == c \in FirstSeparators
IsSecondSeparator(c) == c \in SecondSeparators
LineWord == <<"l", "i", "n", "e", " ">>

NoMatchAt == [matched |-> FALSE, index |-> 0, group1 |-> << >>,
              group2 |-> << >>, group2Defined |-> FALSE]

\* LINE_COLON_PATTERN tried at the 1-based position i of str:
\*   \s? [#:\(] (?:line )? (\d*) (?:[#:,](\d*))? \)? \s* $
\* Each quantifier takes what it can: no two alternatives of the pattern can
\* both continue from one position, so the match never backtracks into a
\* different grouping.
MatchAt(str, i) ==
    LET n  == Len(str)
        p1 == IF i <= n /\ IsWhitespace(str[i]) THEN i + 1 ELSE i
        p2 == p1 + 1
        p3 == IF StartsWithAt(str, p2, LineWord) THEN p2 + Len(LineWord) ELSE p2
        p4 == RunEnd(str, p3, Digits)
        second == p4 <= n /\ IsSecondSeparator(str[p4])
        p5 == IF second THEN RunEnd(str, p4 + 1, Digits) ELSE p4
        p6 == IF p5 <= n /\ str[p5] = ")" THEN p5 + 1 ELSE p5
        p7 == RunEnd(str, p6, Whitespace)
    IN  IF p1 <= n /\ IsFirstSeparator(str[p1]) /\ p7 = n + 1
        THEN [matched |-> TRUE, index |-> i - 1,
              group1 |-> SubSeq(str, p3, p4 - 1),
              group2 |-> IF second THEN SubSeq(str, p4 + 1, p5 - 1) ELSE << >>,
              group2Defined |-> second]
        ELSE NoMatchAt

\* (mutant of RegExpExec: the match at the rightmost position)
RegExpExecRightmost(str) ==
    LET starts == {i \in 1..Len(str) : MatchAt(str, i).matched}
    IN  IF starts = {} THEN NoMatchAt ELSE MatchAt(str, SetMax(starts))

\* LINE_COLON_PATTERN.exec(expression): the match at the leftmost position
RegExpExec(str) ==
    LET starts == {i \in 1..Len(str) : MatchAt(str, i).matched}
    IN  IF starts = {} THEN NoMatchAt ELSE MatchAt(str, SetMin(starts))

\* patternMatch[k] ?? ''
OrEmpty(defined, group) == IF defined THEN group ELSE << >>

\* (mutant of lineNumberOf: the 1-based line is kept)
lineNumberOneBased(line) == line.value

\* const lineNumber = line > 0 ? line - 1 : 0
lineNumberOf(line) == IF line.value > 0 THEN line.value - 1 ELSE 0

\* const startColumn = Number.isFinite(column) && column > 0 ? column - 1 : 0
startColumnOf(column) ==
    IF IsFinite(column) /\ column.value > 0 THEN column.value - 1 ELSE 0

splitFilterAndRange(expr) ==
    LET patternMatch == RegExpExec(expr)
        line     == ParseInt(OrEmpty(TRUE, patternMatch.group1))
        column   == ParseInt(OrEmpty(patternMatch.group2Defined, patternMatch.group2))
        position == Position(lineNumberOf(line), startColumnOf(column))
    IN  IF patternMatch.matched /\ IsFinite(line)
        THEN [filter |-> Substr0(expr, patternMatch.index),
              range  |-> Range(position, position)]
        ELSE [filter |-> expr, range |-> UndefinedRange]

filterAndRangeDefault == [filter |-> << >>, range |-> UndefinedRange]

-----------------------------------------------------------------------------
(* compareItems                                                             *)

\* (mutant of Scores: the exact and the partial bonus exchanged)
ScoresExchanged == [max |-> 1000, exact |-> 250, partial |-> 500]

\* QuickFileOpenService.Scores
Scores == [max |-> 1000, exact |-> 500, partial |-> 250]

\* normalize(str) of compareItems
normalize(str) == ToLowerCase(Trim(str))

\* query.split(WHITESPACE_QUERY_SEPARATOR), the separator being /\s+/: the
\* pieces between the runs of whitespace, empty pieces at the ends included
RECURSIVE Split(_)
Split(str) ==
    LET ws == {i \in 1..Len(str) : IsWhitespace(str[i])}
    IN  IF ws = {} THEN << str >>
        ELSE LET s == SetMin(ws)
                 e == RunEnd(str, s, Whitespace)
             IN  << SubSeq(str, 1, s - 1) >> \o Split(SubSeq(str, e, Len(str)))

\* querySplit.join('')
RECURSIVE Join(_)
Join(parts) == IF parts = << >> THEN << >> ELSE Head(parts) \o Join(Tail(parts))

\* What fuzzy.match returns: null, or an object with a score that is a number
\* or Infinity (the pattern equals the string).
FuzzyNull == [matched |-> FALSE, infinite |-> FALSE, score |-> 0]
FuzzyScore(n) == [matched |-> TRUE, infinite |-> FALSE, score |-> n]
FuzzyInfinity == [matched |-> TRUE, infinite |-> TRUE, score |-> 0]

\* matchScore of score(str)
matchScoreOf(fuzzyMatch) ==
    IF fuzzyMatch.matched
    THEN (IF fuzzyMatch.infinite THEN Scores.max ELSE fuzzyMatch.score)
    ELSE 0

\* score(str) of compareItems; fz[str] is fuzzy.match(queryJoin, str)
score(str, query, fz) ==
    LET querySplit   == Split(query)
        exactMatch   == \A k \in 1..Len(querySplit) : Includes(str, querySplit[k])
        partialMatch == \E k \in 1..Len(querySplit) : Includes(str, querySplit[k])
        fuzzyMatch   == fz[str]
        matchScore   == matchScoreOf(fuzzyMatch)
    IN  IF exactMatch THEN matchScore + Scores.exact
        ELSE IF partialMatch THEN matchScore + Scores.partial
        ELSE IF ~fuzzyMatch.matched THEN 0 ELSE matchScore

\* The order localeCompare puts the characters in (whitespace, punctuation,
\* digits, letters).
Collation == << " ", "\t", ",", ":", ".", "(", ")", "/", "#",
               "0", "1", "2", "3", "4", "5", "6", "7", "8", "9",
               "a", "A", "b", "B", "e", "f", "i", "l", "n", "o", "s", "t", "x", "X" >>

CollationRank(c) == SetMin({i \in 1..Len(Collation) : Collation[i] = c})

\* x.localeCompare(y)
LocaleCompare(x, y) ==
    LET shorter == IF Len(x) < Len(y) THEN Len(x) ELSE Len(y)
        differ  == {i \in 1..shorter : x[i] # y[i]}
    IN  IF differ = {}
        THEN (IF Len(x) < Len(y) THEN -1 ELSE IF Len(x) > Len(y) THEN 1 ELSE 0)
        ELSE LET m == SetMin(differ)
             IN  IF CollationRank(x[m]) < CollationRank(y[m]) THEN -1 ELSE 1

\* a[member]()!, its path when it is a URI
memberValue(item, member) ==
    IF member = "getLabel" THEN item.label ELSE item.uri.path

\* (mutant of byScore: the operands exchanged)
byScoreAscending(scoreA, scoreB) == scoreA - scoreB

\* return scoreB - scoreA
byScore(scoreA, scoreB) == scoreB - scoreA

\* return indexA - indexB
byIndex(indexA, indexB) == indexA - indexB

\* (mutant of byLength: the first item always wins)
byLengthFirstWins(itemA, itemB) == -1

\* return (itemA.length < itemB.length) ? -1 : 1
byLength(itemA, itemB) == IF Len(itemA) < Len(itemB) THEN -1 ELSE 1

\* (mutant of byAlphabet: alphabetical instead of reverse alphabetical)
byAlphabetForward(itemA, itemB) == LocaleCompare(itemA, itemB)

\* const comparison = itemB.localeCompare(itemA)
byAlphabet(itemA, itemB) == LocaleCompare(itemB, itemA)

\* (mutant of stopsAtUri: the guard against a second fallback is missing)
stopsNever(member) == FALSE

\* member === 'getUri': the comparison stops instead of calling itself
stopsAtUri(member) == member = "getUri"

\* The frames the call stack holds before a call throws RangeError.
MaxCallStack == 4

returned(value, depth) == [value |-> value, calls |-> depth, threw |-> FALSE]
rangeError(depth) == [value |-> 0, calls |-> depth, threw |-> TRUE]

\* compareItems(a, b, member) with this.filterAndRange.filter = filter, as the
\* depth-th nested call: the value returned and the number of calls made
RECURSIVE compareItemsAt(_, _, _, _, _, _)
compareItemsAt(a, b, member, filter, fz, depth) ==
    IF depth > MaxCallStack THEN rangeError(depth - 1)
    ELSE
    LET query  == normalize(filter)
        itemA  == normalize(memberValue(a, member))
        itemB  == normalize(memberValue(b, member))
        scoreA == score(itemA, query, fz)
        scoreB == score(itemB, query, fz)
        indexA == IndexOf(itemA, query)
        indexB == IndexOf(itemB, query)
        comparison == byAlphabet(itemA, itemB)
    IN  IF scoreA = scoreB
        THEN IF indexA = indexB
             THEN IF Len(itemA) # Len(itemB)
                  THEN returned(byLength(itemA, itemB), depth)
                  ELSE IF comparison = 0
                       THEN IF stopsAtUri(member)
                            THEN returned(0, depth)
                            ELSE compareItemsAt(a, b, "getUri", filter, fz, depth + 1)
                       ELSE returned(byAlphabet(itemA, itemB), depth)
             ELSE returned(byIndex(indexA, indexB), depth)
        ELSE returned(byScore(scoreA, scoreB), depth)

\* this.compareItems(a, b, member)
compareItems(a, b, member) ==
    compareItemsAt(a, b, member, filterAndRange.filter, fuzzy, 1)

-----------------------------------------------------------------------------
(* Items, the recently used locations and the completion handler of onType *)

\* uri.toString(): scheme, '://' (the authority is empty) and the path
SchemeText(scheme) ==
    CASE scheme = "file" -> <<"f", "i", "l", "e">>
      [] scheme = "git"  -> <<"g", "i", "t">>
      [] OTHER           -> << >>

uriString(uri) == SchemeText(uri.scheme) \o <<":", "/", "/">> \o uri.path

\* this.labelProvider.getName(uri): the part of the path after its last '/'
getName(uri) ==
    LET slashes == {i \in 1..Len(uri.path) : uri.path[i] = "/"}
    IN  IF slashes = {} THEN uri.path
        ELSE SubSeq(uri.path, SetMax(slashes) + 1, Len(uri.path))

\* fuzzy.test(pattern, str): the characters of the pattern occur in str in
\* their order, whatever their case
RECURSIVE Subsequence(_, _)
Subsequence(pattern, str) ==
    IF pattern = << >> THEN TRUE
    ELSE IF str = << >> THEN FALSE
    ELSE IF Head(pattern) = Head(str) THEN Subsequence(Tail(pattern), Tail(str))
    ELSE Subsequence(pattern, Tail(str))

fuzzyTest(pattern, str) == Subsequence(ToLowerCase(pattern), ToLowerCase(str))

\* this.toItem(uri, group), this.toItem(uri)
toGroupItem(uri, groupLabel, showBorder) ==
    [label |-> getName(uri), uri |-> uri, groupLabel |-> groupLabel,
     showBorder |-> showBorder, runs |-> TRUE]

toItem(uri) == toGroupItem(uri, "undefined", FALSE)

\* this.toNoResultsItem()
NoUri == [scheme |-> "", path |-> << >>]
toNoResultsItem ==
    [label |-> <<"No matching results">>, uri |-> NoUri, groupLabel |-> "undefined",
     showBorder |-> FALSE, runs |-> FALSE]

\* (mutant of Reverse: the locations are left oldest first)
NotReversed(seq) == seq

\* [...this.navigationLocationService.locations()].reverse()
Reverse(seq) == [i \in 1..Len(seq) |-> seq[Len(seq) + 1 - i]]

\* the loop of onType over the reversed locations: the items and the uri
\* strings collected so far
RECURSIVE collectRecent(_, _, _, _)
collectRecent(locations, fileFilter, items, collected) ==
    IF locations = << >> THEN [items |-> items, collected |-> collected]
    ELSE LET uri == Head(locations)
         IN  IF /\ uri.scheme = "file"
                /\ uri \notin collected
                /\ fuzzyTest(fileFilter, uriString(uri))
             THEN collectRecent(Tail(locations), fileFilter,
                      Append(items,
                          toGroupItem(uri,
                              IF Len(items) = 0 THEN "recently opened" ELSE "undefined",
                              FALSE)),
                      collected \cup {uri})
             ELSE collectRecent(Tail(locations), fileFilter, items, collected)

\* if (fileFilter.length > 0): a file search is started
\* (mutant of issuesSearch: a search is started for the empty filter as well)
issuesSearchAlways(fileFilter) == TRUE

issuesSearch(fileFilter) == Len(fileFilter) > 0

\* if (results.length <= 0): the search found nothing
\* (mutant of hasNoResults: the empty list is handled as any other)
hasNoResultsNever(results) == FALSE

hasNoResults(results) == Len(results) <= 0

\* (mutant of collectResults: an item for every result, collected or not)
collectResultsAll(results, items, collected) ==
    items \o [i \in 1..Len(results) |-> toItem(results[i])]

\* the loop of the handler over the results: an item for every uri not yet
\* collected
RECURSIVE collectResults(_, _, _)
collectResults(results, items, collected) ==
    IF results = << >> THEN items
    ELSE IF Head(results) \notin collected
         THEN collectResults(Tail(results), Append(items, toItem(Head(results))),
                  collected \cup {Head(results)})
         ELSE collectResults(Tail(results), items, collected)

\* sortedResults.sort((a, b) => this.compareItems(a, b)): the sort is stable
RECURSIVE insertSorted(_, _, _, _)
insertSorted(sorted, item, filter, fz) ==
    IF sorted = << >> THEN << item >>
    ELSE IF compareItemsAt(item, Head(sorted), "getLabel", filter, fz, 1).value < 0
         THEN << item >> \o sorted
         ELSE << Head(sorted) >> \o insertSorted(Tail(sorted), item, filter, fz)

RECURSIVE sortItems(_, _, _)
sortItems(items, filter, fz) ==
    IF items = << >> THEN << >>
    ELSE insertSorted(sortItems(SubSeq(items, 1, Len(items) - 1), filter, fz),
                      items[Len(items)], filter, fz)

\* the first element re-added with the group label
regroupFirst(sortedResults, recentlyUsedItems) ==
    IF sortedResults = << >> THEN << >>
    ELSE << toGroupItem(Head(sortedResults).uri, "file results",
                        Len(recentlyUsedItems) # 0) >> \o Tail(sortedResults)

\* (mutant of cancel: the token is left as it is)
cancelNothing(tokens, source) == tokens

\* this.cancelIndicator.cancel(): the token of the source is cancelled
cancel(tokens, source) == tokens \cup {source}

\* (mutant of isCancellationRequested: no token ever reports a cancellation)
isCancellationRequestedNever(token) == FALSE

\* token.isCancellationRequested
isCancellationRequested(token) == token \in cancelled

\* `undefined' for a closed editor
NoViewState == [found |-> FALSE, viewState |-> ""]

\* closedEditorsStack.find(editor => editor.uri.path.toString() ===
\* uri.path.toString()): the first closed editor of that path, if any
findClosedEditor(closedEditorsStack, uri) ==
    LET same == {i \in 1..Len(closedEditorsStack) :
                    closedEditorsStack[i].uri.path = uri.path}
    IN  IF same = {} THEN NoViewState
        ELSE [found |-> TRUE, viewState |-> closedEditorsStack[SetMin(same)].viewState]

\* (mutant of buildOpenerOptions: no selection is ever requested)
buildOpenerOptionsWithoutSelection == [selection |-> UndefinedRange]

\* this.buildOpenerOptions()
buildOpenerOptions == [selection |-> filterAndRange.range]

\* widget instanceof EditorWidget && closedEditor && !options.selection:
\* the view state handed to widget.editor.restoreViewState, if any
restoreViewState(isEditorWidget, closedEditor, options) ==
    IF isEditorWidget /\ closedEditor.found /\ ~options.selection.defined
    THEN closedEditor ELSE NoViewState

-----------------------------------------------------------------------------
(* The state after construction, shared by the three specifications.       *)

NoItem == [label |-> << >>, uri |-> [scheme |-> "file", path |-> << >>]]
NoCall == [made |-> FALSE, a |-> NoItem, b |-> NoItem, member |-> "getLabel"]
NotCompared == returned(0, 0)
NotSplit == [called |-> FALSE, filter |-> << >>, range |-> UndefinedRange]
NoFuzzy == [str \in {<< >>} |-> FuzzyNull]
NoType == [made |-> FALSE, lookFor |-> << >>]
NoSearch == [token |-> 0, seq |-> 0, filter |-> << >>,
             recentlyUsedItems |-> << >>, alreadyCollected |-> {}, useGitIgnore |-> TRUE]
NotHandled == [run |-> FALSE, search |-> NoSearch, results |-> << >>,
               rankedBy |-> << >>]
NotOpened == [count |-> 0, uri |-> NoUri, selection |-> UndefinedRange,
              closedEditor |-> NoViewState, restored |-> NoViewState, error |-> FALSE]

ServiceInit ==
    /\ isOpen = FALSE
    /\ hideIgnoredFiles = TRUE
    /\ cancelIndicator = 0
    /\ cancelled = {}
    /\ pending = {}
    /\ accepted = [calls |-> 0, seq |-> 0, sync |-> FALSE, items |-> << >>]
    /\ typed = 0
    /\ skipped = 0
    /\ lastType = NoType
    /\ handled = NotHandled
    /\ opening = {}
    /\ opened = NotOpened

-----------------------------------------------------------------------------
(* SplitSpec: splitFilterAndRange applied to every short expression and to *)
(* the expressions of the documentation.                                    *)

MaxExpressionLen == 4

SplitAlphabet == {"f", ":", "(", ")", ",", " ", "0", "2"}

Foo == <<"f", "o", "o", ".", "t", "s">>

DocumentedExpressions ==
    { Foo,
      Foo \o <<":", "4", "2">>,
      Foo \o <<":", "4", "2", ":", "7">>,
      Foo \o <<":", "4", "2", ",", "7">>,
      Foo \o <<"#">>,
      Foo \o <<"#", "4", "2", "#", "7">>,
      Foo \o <<"(", "4", "2", ",", "7", ")">>,
      Foo \o <<" ", "(", "l", "i", "n", "e", " ", "4", "2", ",", "7", ")", " ">>,
      Foo \o <<":", "l", "i", "n", "e", " ", ":", "5">>,
      Foo \o <<":", "0", ":", "0">>,
      Foo \o <<":", ":", "5">>,
      <<"a", ":", "1", ":", "2", ":", "3">> }

Expressions ==
    UNION {[1..k -> SplitAlphabet] : k \in 0..MaxExpressionLen}
        \cup DocumentedExpressions

SplitInit ==
    /\ ServiceInit
    /\ navigation = << >>
    /\ roots = << >>
    /\ filterAndRange = filterAndRangeDefault
    /\ fuzzy = NoFuzzy
    /\ cmpCall = NoCall
    /\ cmpOut = NotCompared
    /\ expression \in Expressions
    /\ splitOut = NotSplit

\* const r = this.splitFilterAndRange(expression)
SplitFilterAndRange ==
    /\ ~splitOut.called
    /\ splitOut' = [called |-> TRUE,
                    filter |-> splitFilterAndRange(expression).filter,
                    range  |-> splitFilterAndRange(expression).range]
    /\ UNCHANGED << serviceVars, filterAndRange, fuzzy, cmpCall, cmpOut, expression >>

SplitNext == SplitFilterAndRange

SplitSpec == SplitInit /\ [][SplitNext]_vars

-----------------------------------------------------------------------------
(* Claims about splitFilterAndRange, under SplitSpec.                       *)

Point(line, character) == Range(Position(line, character), Position(line, character))

\* the value a token of digits denotes
RECURSIVE TokenValue(_)
TokenValue(token) ==
    IF token = << >> THEN 0
    ELSE TokenValue(SubSeq(token, 1, Len(token) - 1)) * 10 + DigitValue[token[Len(token)]]

\* the point a line token and a column token (empty when absent) stand for
PointOfTokens(lineToken, columnToken) ==
    LET L == TokenValue(lineToken)
        C == TokenValue(columnToken)
    IN  Point(IF L > 0 THEN L - 1 ELSE 0, IF C > 0 THEN C - 1 ELSE 0)

\* C8: when a location suffix with a numeric line token L and an optional
\* column token C is recognized, the range is the zero-width point at line
\* L - 1 (0 when L = 0) and column C - 1 (0 when C is absent, empty or 0);
\* 'foo.ts:42' gives point(41,0), 'foo.ts:42:7' and 'foo.ts:42,7' point(41,6).
C8_RangeIsPoint ==
    splitOut.called =>
        LET m == RegExpExec(expression)
        IN  /\ (m.matched /\ m.group1 # << >>) =>
                   splitOut.range = PointOfTokens(m.group1, m.group2)
            /\ splitOut.range.defined => splitOut.range.start = splitOut.range.end
            /\ expression = Foo \o <<":", "4", "2">> => splitOut.range = Point(41, 0)
            /\ expression = Foo \o <<":", "4", "2", ":", "7">> => splitOut.range = Point(41, 6)
            /\ expression = Foo \o <<":", "4", "2", ",", "7">> => splitOut.range = Point(41, 6)
            /\ expression = Foo \o <<":", "0", ":", "0">> => splitOut.range = Point(0, 0)

C8_Witness ==
    /\ splitOut.called
    /\ expression = Foo \o <<":", "4", "2", ",", "7">>
    /\ splitOut.range = Point(41, 6)
    /\ splitOut.filter = Foo

\* C9: when no valid location suffix is recognized (the pattern does not
\* match, or it matches with an empty line token, as in 'foo.ts#'), the range
\* is undefined and the filter is the whole expression.
C9_NoSuffixKeepsExpression ==
    splitOut.called =>
        LET m == RegExpExec(expression)
        IN  /\ (~m.matched \/ m.group1 = << >>) =>
                   (splitOut.filter = expression /\ ~splitOut.range.defined)
            /\ (\A i \in 1..Len(expression) : ~IsFirstSeparator(expression[i])) =>
                   (splitOut.filter = expression /\ ~splitOut.range.defined)
            /\ (\A i \in 1..Len(expression) : ~IsDigit(expression[i])) =>
                   (splitOut.filter = expression /\ ~splitOut.range.defined)

C9_Witness ==
    /\ splitOut.called
    /\ expression = Foo \o <<"#">>
    /\ RegExpExec(expression).matched
    /\ splitOut.filter = expression
    /\ ~splitOut.range.defined

\* t is a well-formed suffix: the whole of it matches the pattern, with a
\* line token that is not empty
WellFormedSuffix(t) == MatchAt(t, 1).matched /\ MatchAt(t, 1).group1 # << >>

\* q ends in '#', ':' or '(' followed by an optional 'line ' and digits only
EndsInOpenSuffix(q) ==
    \E j \in 1..Len(q) :
        /\ IsFirstSeparator(q[j])
        /\ LET rest  == SubSeq(q, j + 1, Len(q))
               token == IF StartsWithAt(rest, 1, LineWord)
                        THEN SubSeq(rest, Len(LineWord) + 1, Len(rest)) ELSE rest
           IN  \A k \in 1..Len(token) : IsDigit(token[k])

\* t is a bare '#' or ':' and line number (no 'line ' word, no column) that
\* continues an open suffix at the end of p
Absorbed(p, t) ==
    LET w    == IF IsWhitespace(t[1]) THEN 1 ELSE 0
        q    == p \o SubSeq(t, 1, w)
        rest == SubSeq(t, w + 1, Len(t))
    IN  /\ EndsInOpenSuffix(q)
        /\ IsSecondSeparator(rest[1])
        /\ Len(rest) >= 2 /\ IsDigit(rest[2])
        /\ ~MatchAt(rest, 1).group2Defined

\* the split of expression = p \o t delivers the range t encodes and leaves
\* p (less one blank between p and t) as the filter
DeliversSuffix(p, t) ==
    /\ splitOut.range = PointOfTokens(MatchAt(t, 1).group1, MatchAt(t, 1).group2)
    /\ splitOut.filter =
           IF Len(p) > 0 /\ IsWhitespace(p[Len(p)]) /\ ~IsWhitespace(t[1])
           THEN Substr0(p, Len(p) - 1) ELSE p

\* C10 (as amended): for every prefix p and well-formed suffix t, split(p + t)
\* yields the range t encodes and keeps p in the filter, unless t is a bare
\* '#'/':' and line number and p itself ends in '#', ':' or '(' followed by an
\* optional 'line ' and digits: then the earlier separator starts the match.
C10_TrailingSuffixWins ==
    splitOut.called =>
        \A k \in 0..(Len(expression) - 1) :
            LET p == SubSeq(expression, 1, k)
                t == SubSeq(expression, k + 1, Len(expression))
            IN  (WellFormedSuffix(t) /\ ~Absorbed(p, t)) => DeliversSuffix(p, t)

\* C10 (as claimed): for ANY prefix p that does not stop inside a number or
\* at a blank, also one that itself ends in '#', ':' or '(', split(p + t)
\* yields the range t encodes.
C10_AnyPrefix ==
    splitOut.called =>
        \A k \in 0..(Len(expression) - 1) :
            LET p == SubSeq(expression, 1, k)
                t == SubSeq(expression, k + 1, Len(expression))
            IN  (WellFormedSuffix(t) /\ (k = 0 \/ ~(IsDigit(p[k]) \/ IsWhitespace(p[k])))) =>
                    splitOut.range =
                        PointOfTokens(MatchAt(t, 1).group1, MatchAt(t, 1).group2)

C10_Witness ==
    /\ splitOut.called
    /\ expression = <<"a", ":", "1", ":", "2", ":", "3">>
    /\ splitOut.filter = <<"a", ":", "1">>
    /\ splitOut.range = Point(1, 2)

\* C11: the returned filter is a prefix of the expression. When a range is
\* returned, the rest of the expression is the matched suffix: the pattern
\* matches where the filter ends and at no earlier index, so the filter
\* followed by the matched suffix is the expression. When no range is
\* returned, the filter is the whole expression.
C11_FilterIsPrefix ==
    splitOut.called =>
        LET n == Len(splitOut.filter)
        IN  /\ n <= Len(expression)
            /\ SubSeq(expression, 1, n) = splitOut.filter
            /\ splitOut.range.defined =>
                   /\ n < Len(expression)
                   /\ MatchAt(expression, n + 1).matched
                   /\ MatchAt(expression, n + 1).index = n
                   /\ \A i \in 1..n : ~MatchAt(expression, i).matched
                   /\ splitOut.filter \o SubSeq(expression, n + 1, Len(expression))
                          = expression
            /\ ~splitOut.range.defined => splitOut.filter = expression

C11_Witness ==
    /\ splitOut.called
    /\ expression =
           Foo \o <<" ", "(", "l", "i", "n", "e", " ", "4", "2", ",", "7", ")", " ">>
    /\ splitOut.filter = Foo
    /\ splitOut.range = Point(41, 6)

-----------------------------------------------------------------------------
(* CompareSpec: compareItems applied to every pair of a set of items, for  *)
(* every filter of a set and every result the fuzzy primitive may give.    *)

CmpFilters ==
    { <<"a", " ", "b">>, <<"A", " ", "x">>, <<"b">>, <<" ">> }

CmpLabels ==
    { <<"a", " ", "b">>, <<"A", " ", "b">>, <<"a", "x", "b">>, <<"b">> }

CmpUris ==
    { [scheme |-> "file", path |-> <<"/", "a">>],
      [scheme |-> "file", path |-> <<"/", "x">>] }

CmpItems == {[label |-> l, uri |-> u] : l \in CmpLabels, u \in CmpUris}

\* the strings the comparisons score
CmpStrings ==
    {normalize(l) : l \in CmpLabels} \cup {normalize(u.path) : u \in CmpUris}

\* null, Infinity, and a number that makes the scores of neighbouring tiers tie
FuzzyResults == {FuzzyNull, FuzzyScore(250), FuzzyInfinity}

CmpInit ==
    /\ ServiceInit
    /\ navigation = << >>
    /\ roots = << >>
    /\ filterAndRange \in {[filter |-> f, range |-> UndefinedRange] : f \in CmpFilters}
    /\ fuzzy \in [CmpStrings -> FuzzyResults]
    /\ cmpCall = NoCall
    /\ cmpOut = NotCompared
    /\ expression = << >>
    /\ splitOut = NotSplit

\* this.compareItems(a, b), as the sort of the search results calls it
CompareItems ==
    \E a \in CmpItems, b \in CmpItems :
        /\ ~cmpCall.made
        /\ cmpCall' = [made |-> TRUE, a |-> a, b |-> b, member |-> "getLabel"]
        /\ cmpOut' = compareItems(a, b, "getLabel")
        /\ UNCHANGED << serviceVars, filterAndRange, fuzzy, expression, splitOut >>

\* this.compareItems(a, b, 'getUri')
CompareItemsByUri ==
    \E a \in CmpItems, b \in CmpItems :
        /\ ~cmpCall.made
        /\ cmpCall' = [made |-> TRUE, a |-> a, b |-> b, member |-> "getUri"]
        /\ cmpOut' = compareItems(a, b, "getUri")
        /\ UNCHANGED << serviceVars, filterAndRange, fuzzy, expression, splitOut >>

CmpNext == CompareItems \/ CompareItemsByUri

CompareSpec == CmpInit /\ [][CmpNext]_vars

-----------------------------------------------------------------------------
(* Claims about compareItems, under CompareSpec.                            *)

Sign(n) == IF n < 0 THEN -1 ELSE IF n > 0 THEN 1 ELSE 0

\* the value of compareItems(x, y, member) in the current state
Compared(x, y, member) == compareItems(x, y, member).value

\* the key that decided the call applied: the uri when the label comparison
\* fell back to it
DecidingMember == IF cmpOut.calls = 2 THEN "getUri" ELSE cmpCall.member

Query == normalize(filterAndRange.filter)
KeyOf(item, member) == normalize(memberValue(item, member))
ScoreOf(item, member) == score(KeyOf(item, member), Query, fuzzy)
QueryIndex(item, member) == IndexOf(KeyOf(item, member), Query)

\* C2: for a fixed filter compareItems is a total preorder: the sign of
\* compare(b, a) is the negation of the sign of compare(a, b), and
\* compare(a, b) <= 0 and compare(b, c) <= 0 imply compare(a, c) <= 0,
\* whatever the fuzzy primitive returns.
C2_TotalPreorder ==
    cmpCall.made =>
        LET a == cmpCall.a
            b == cmpCall.b
            m == cmpCall.member
        IN  /\ Sign(Compared(b, a, m)) = 0 - Sign(cmpOut.value)
            /\ \A c \in CmpItems :
                   (cmpOut.value <= 0 /\ Compared(b, c, m) <= 0)
                       => Compared(a, c, m) <= 0

C2_Witness ==
    /\ cmpCall.made
    /\ cmpCall.member = "getLabel"
    /\ cmpOut.value < 0
    /\ \E c \in CmpItems :
           /\ Compared(cmpCall.b, c, "getLabel") < 0
           /\ Compared(cmpCall.a, c, "getLabel") < 0
           /\ Compared(c, cmpCall.a, "getLabel") > 0

\* C3: when the scores are equal, the label that contains the filter at the
\* smaller index sorts first, and a label that does not contain the filter
\* sorts after every label that contains it.
C3_FoundBeforeNotFound ==
    (cmpCall.made /\ cmpCall.member = "getLabel") =>
        LET a  == cmpCall.a
            b  == cmpCall.b
            iA == QueryIndex(a, "getLabel")
            iB == QueryIndex(b, "getLabel")
        IN  ScoreOf(a, "getLabel") = ScoreOf(b, "getLabel") =>
              /\ (iA >= 0 /\ iB >= 0 /\ iA < iB) => cmpOut.value < 0
              /\ (iA >= 0 /\ iB >= 0 /\ iA > iB) => cmpOut.value > 0
              /\ (iA >= 0 /\ iB = -1) => cmpOut.value < 0
              /\ (iA = -1 /\ iB >= 0) => cmpOut.value > 0

\* C4 (as claimed): the result is always one of -1, 0 and 1.
C4_ResultIsSign == cmpCall.made => cmpOut.value \in {-1, 0, 1}

\* C4 (as amended): the result is a number whose sign orders the pair and
\* whose size is not bounded by 1: it is scoreB - scoreA when the scores of
\* the deciding key differ, indexA - indexB when they tie and the filter
\* indices differ, and one of -1, 0, 1 only when both tie; for both keys.
C4_ResultIsDifference ==
    cmpCall.made =>
        LET a  == cmpCall.a
            b  == cmpCall.b
            m  == DecidingMember
            sA == ScoreOf(a, m)
            sB == ScoreOf(b, m)
            iA == QueryIndex(a, m)
            iB == QueryIndex(b, m)
        IN  /\ cmpOut.value \in Int
            /\ sA # sB => cmpOut.value = sB - sA
            /\ (sA = sB /\ iA # iB) => cmpOut.value = iA - iB
            /\ (sA = sB /\ iA = iB) => cmpOut.value \in {-1, 0, 1}

C4_Witness ==
    /\ cmpCall.made
    /\ cmpCall.member = "getLabel"
    /\ cmpOut.calls = 1
    /\ cmpOut.value = 250

\* the tokens of a query: its maximal runs of characters that are not blanks
TokensOf(query) ==
    { SubSeq(query, i, j) : <<i, j>> \in
        { ij \in (1..Len(query)) \X (1..Len(query)) :
            /\ ij[1] <= ij[2]
            /\ \A k \in ij[1]..ij[2] : ~IsWhitespace(query[k])
            /\ (ij[1] = 1 \/ IsWhitespace(query[ij[1] - 1]))
            /\ (ij[2] = Len(query) \/ IsWhitespace(query[ij[2] + 1])) } }

AllTokensIn(str) == \A t \in TokensOf(Query) : Includes(str, t)
SomeTokenIn(str) == \E t \in TokensOf(Query) : Includes(str, t)

FuzzyContribution(str) ==
    IF ~fuzzy[str].matched THEN 0
    ELSE IF fuzzy[str].infinite THEN 1000 ELSE fuzzy[str].score

ClaimedScore(str) ==
    FuzzyContribution(str) +
        (IF AllTokensIn(str) THEN 500 ELSE IF SomeTokenIn(str) THEN 250 ELSE 0)

\* C5: a candidate's score is the fuzzy contribution (0 for no match, 1000 for
\* Infinity, else the numeric score) plus 500 if every token of the normalized
\* filter is a substring of the normalized label, else plus 250 if some token
\* is, else plus 0; the higher score sorts first, so at equal raw fuzzy score
\* an exact match outranks a partial match, which outranks a pure-fuzzy match.
C5_ScoreTiers ==
    (cmpCall.made /\ cmpCall.member = "getLabel") =>
        LET a  == cmpCall.a
            b  == cmpCall.b
            kA == KeyOf(a, "getLabel")
            kB == KeyOf(b, "getLabel")
        IN  /\ ScoreOf(a, "getLabel") = ClaimedScore(kA)
            /\ ScoreOf(b, "getLabel") = ClaimedScore(kB)
            /\ ClaimedScore(kA) > ClaimedScore(kB) => cmpOut.value < 0
            /\ ClaimedScore(kA) < ClaimedScore(kB) => cmpOut.value > 0
            /\ (fuzzy[kA] = fuzzy[kB] /\ AllTokensIn(kA) /\ ~AllTokensIn(kB))
                   => cmpOut.value < 0
            /\ (fuzzy[kA] = fuzzy[kB] /\ SomeTokenIn(kA) /\ ~SomeTokenIn(kB))
                   => cmpOut.value < 0

C5_Witness ==
    /\ cmpCall.made
    /\ cmpCall.member = "getLabel"
    /\ fuzzy[KeyOf(cmpCall.a, "getLabel")] = FuzzyScore(250)
    /\ fuzzy[KeyOf(cmpCall.b, "getLabel")] = FuzzyScore(250)
    /\ SomeTokenIn(KeyOf(cmpCall.a, "getLabel"))
    /\ ~AllTokensIn(KeyOf(cmpCall.a, "getLabel"))
    /\ ~SomeTokenIn(KeyOf(cmpCall.b, "getLabel"))
    /\ ScoreOf(cmpCall.a, "getLabel") = 500
    /\ ScoreOf(cmpCall.b, "getLabel") = 250
    /\ cmpOut.value = -250

\* C6: compare(a, a, q, 'label') is 0; every comparison returns after at most
\* one fallback from the label to the uri; a comparison keyed by the uri
\* never calls itself; items with identical labels and identical uris
\* compare as 0.
C6_OneFallback ==
    cmpCall.made =>
        /\ ~cmpOut.threw
        /\ cmpOut.calls \in {1, 2}
        /\ cmpCall.member = "getUri" => cmpOut.calls = 1
        /\ cmpCall.a = cmpCall.b => cmpOut.value = 0
        /\ ( /\ KeyOf(cmpCall.a, "getLabel") = KeyOf(cmpCall.b, "getLabel")
             /\ KeyOf(cmpCall.a, "getUri") = KeyOf(cmpCall.b, "getUri") )
               => cmpOut.value = 0

C6_Witness ==
    /\ cmpCall.made
    /\ cmpCall.member = "getLabel"
    /\ cmpCall.a.label # cmpCall.b.label
    /\ cmpCall.a.uri = cmpCall.b.uri
    /\ cmpOut.calls = 2
    /\ ~cmpOut.threw
    /\ cmpOut.value = 0

\* x comes later than y in alphabetical order
AlphabeticallyLater(x, y) ==
    \E i \in 1..Len(x) :
        /\ i <= Len(y)
        /\ SubSeq(x, 1, i - 1) = SubSeq(y, 1, i - 1)
        /\ CollationRank(x[i]) > CollationRank(y[i])

C7_WitnessShorter ==
    /\ cmpCall.made
    /\ cmpCall.member = "getLabel"
    /\ ScoreOf(cmpCall.a, "getLabel") = ScoreOf(cmpCall.b, "getLabel")
    /\ QueryIndex(cmpCall.a, "getLabel") = QueryIndex(cmpCall.b, "getLabel")
    /\ Len(KeyOf(cmpCall.a, "getLabel")) < Len(KeyOf(cmpCall.b, "getLabel"))
    /\ cmpOut.value = -1

-----------------------------------------------------------------------------
(* Spec: open, the close callback, onType and the completion of the file   *)
(* searches it starts, in any order.                                        *)

MaxTypes == 2

FileA  == [scheme |-> "file", path |-> <<"/", "a">>]
FileAb == [scheme |-> "file", path |-> <<"/", "a", "b">>]
GitA   == [scheme |-> "git",  path |-> <<"/", "a">>]

Uris == {FileA, FileAb, GitA}

\* what the user types: the filter 'a' matches both files, 'b' one of them,
\* and ':2' is a location without a filter
Queries == { << >>, <<":", "2">>, <<"a">>, <<"b", ":", "2">> }

\* the navigation history, oldest location first
Histories == { << >>, <<FileA, FileAb, GitA, FileAb>> }

\* what a file search may resolve to
ResultLists ==
    { << >>, <<FileA>>, <<FileA, FileAb>>, <<GitA, FileAb, GitA>>,
      <<FileAb, FileAb, FileA>> }

\* the labels and the paths a sort of the results scores
ServiceLabels == {normalize(getName(u)) : u \in Uris}
ServicePaths == {normalize(u.path) : u \in Uris}

\* What fuzzy.match may return for them: the primitive is a function of its
\* arguments, so one table serves a whole behaviour. Results with one label
\* have one path here, so that a comparison by uri ties whatever the paths
\* score: their entries are left null.
ServiceTable(t) ==
    [str \in ServiceLabels \cup ServicePaths |->
        IF str \in ServiceLabels THEN t[str] ELSE FuzzyNull]

ServiceFuzzy ==
    { ServiceTable([label \in ServiceLabels |-> FuzzyNull]),
      ServiceTable([label \in ServiceLabels |->
                       IF label = <<"a", "b">> THEN FuzzyInfinity ELSE FuzzyNull]) }

\* the uris openFile is called for, and what the stack of closed editors holds
OpenUris == {FileA, FileAb}

ClosedEditorsStacks ==
    { << >>,
      << [uri |-> FileAb, viewState |-> "ab"] >>,
      << [uri |-> GitA, viewState |-> "git a"], [uri |-> FileA, viewState |-> "a"] >> }

MaxOpens == 1

\* the roots of the workspace: a workspace without a folder has none
WorkspaceRoot == [scheme |-> "file", path |-> <<"/">>]
RootLists == { << >>, << WorkspaceRoot >> }

Init ==
    /\ ServiceInit
    /\ navigation \in Histories
    /\ roots \in RootLists
    /\ filterAndRange = filterAndRangeDefault
    /\ fuzzy \in ServiceFuzzy
    /\ cmpCall = NoCall
    /\ cmpOut = NotCompared
    /\ expression = << >>
    /\ splitOut = NotSplit

pureVars == << workspaceVars, fuzzy, cmpCall, cmpOut, expression, splitOut >>

\* acceptor(items), called for the onType call seq
Accept(seq, sync, items) ==
    accepted' = [calls |-> accepted.calls + 1, seq |-> seq, sync |-> sync,
                 items |-> items]

\* (mutant of Open: the filter of the closed session is kept)
OpenKeepsFilter ==
    /\ IF isOpen
       THEN /\ hideIgnoredFiles' = ~hideIgnoredFiles
            /\ UNCHANGED << filterAndRange, isOpen, lastType >>
       ELSE /\ hideIgnoredFiles' = TRUE
            /\ isOpen' = TRUE
            /\ lastType' = NoType
            /\ UNCHANGED filterAndRange
    /\ UNCHANGED << cancelIndicator, cancelled, pending, accepted, typed, skipped,
                    handled, openerVars, pureVars >>

\* open()
Open ==
    /\ IF isOpen
       THEN /\ hideIgnoredFiles' = ~hideIgnoredFiles
            /\ UNCHANGED << filterAndRange, isOpen, lastType >>
       ELSE /\ hideIgnoredFiles' = TRUE
            /\ filterAndRange' = filterAndRangeDefault
            /\ isOpen' = TRUE
            /\ lastType' = NoType
    /\ UNCHANGED << cancelIndicator, cancelled, pending, accepted, typed, skipped,
                    handled, openerVars, pureVars >>

\* the onClose callback of getOptions()
OnClose ==
    /\ isOpen' = FALSE
    /\ cancelled' = cancel(cancelled, cancelIndicator)
    /\ UNCHANGED << hideIgnoredFiles, filterAndRange, cancelIndicator, pending,
                    accepted, typed, skipped, lastType, handled, openerVars, pureVars >>

\* onType(lookFor, acceptor), up to the call of fileSearchService.find or of
\* the acceptor
OnType ==
    \E lookFor \in Queries :
        LET token      == cancelIndicator + 1
            split      == splitFilterAndRange(lookFor)
            fileFilter == split.filter
            locations  == Reverse(navigation)
            recent     == collectRecent(locations, fileFilter, << >>, {})
        IN  /\ typed < MaxTypes
            /\ typed' = typed + 1
            /\ lastType' = [made |-> TRUE, lookFor |-> lookFor]
            /\ cancelled' = cancel(cancelled, cancelIndicator)
            /\ cancelIndicator' = token
            /\ filterAndRange' = split
            /\ IF issuesSearch(fileFilter)
               THEN /\ pending' = pending \cup
                           {[token |-> token, seq |-> typed + 1, filter |-> fileFilter,
                             recentlyUsedItems |-> recent.items,
                             alreadyCollected |-> recent.collected,
                             useGitIgnore |-> hideIgnoredFiles]}
                    /\ UNCHANGED << accepted, handled >>
               ELSE /\ IF Len(roots) # 0
                       THEN /\ Accept(typed + 1, TRUE, recent.items)
                            /\ handled' = NotHandled
                       ELSE UNCHANGED << accepted, handled >>
                    /\ UNCHANGED pending
            /\ UNCHANGED << isOpen, hideIgnoredFiles, skipped, openerVars, pureVars >>

\* handler(results): a find promise resolves and its handler runs
SearchComplete ==
    \E search \in pending, results \in ResultLists :
        /\ pending' = pending \ {search}
        /\ IF isCancellationRequested(search.token)
           THEN /\ skipped' = skipped + 1
                /\ UNCHANGED << accepted, handled >>
           ELSE /\ UNCHANGED skipped
                /\ handled' = [run |-> TRUE, search |-> search, results |-> results,
                               rankedBy |-> filterAndRange.filter]
                /\ IF hasNoResults(results)
                   THEN Accept(search.seq, FALSE, << toNoResultsItem >>)
                   ELSE LET fileSearchResultItems ==
                                collectResults(results, << >>, search.alreadyCollected)
                            sortedResults ==
                                sortItems(fileSearchResultItems, filterAndRange.filter,
                                          fuzzy)
                        IN  Accept(search.seq, FALSE,
                                search.recentlyUsedItems \o
                                    regroupFirst(sortedResults, search.recentlyUsedItems))
        /\ UNCHANGED << isOpen, hideIgnoredFiles, filterAndRange, cancelIndicator,
                        cancelled, typed, lastType, openerVars, pureVars >>

\* a find promise rejects: its handler never runs
SearchFails ==
    \E search \in pending :
        /\ pending' = pending \ {search}
        /\ UNCHANGED << isOpen, hideIgnoredFiles, filterAndRange, cancelIndicator,
                        cancelled, accepted, typed, skipped, lastType, handled,
                        openerVars, pureVars >>

sessionVars == << isOpen, hideIgnoredFiles, filterAndRange, cancelIndicator, cancelled,
                  pending, accepted, typed, skipped, lastType, handled >>

\* openFile(uri), up to the call of this.openerService.getOpener
OpenFile ==
    \E uri \in OpenUris, closedEditorsStack \in ClosedEditorsStacks :
        /\ opened.count + Cardinality(opening) < MaxOpens
        /\ opening' = opening \cup
               {[uri |-> uri, options |-> buildOpenerOptions,
                 closedEditor |-> findClosedEditor(closedEditorsStack, uri)]}
        /\ UNCHANGED << sessionVars, opened, pureVars >>

\* the opener opened the uri with the options: the last `then' of openFile
OpenerOpens ==
    \E call \in opening, isEditorWidget \in BOOLEAN :
        /\ opening' = opening \ {call}
        /\ opened' = [count |-> opened.count + 1, uri |-> call.uri,
                      selection |-> call.options.selection,
                      closedEditor |-> call.closedEditor,
                      restored |-> restoreViewState(isEditorWidget, call.closedEditor,
                                                    call.options),
                      error |-> FALSE]
        /\ UNCHANGED << sessionVars, pureVars >>

\* getOpener or open rejected: this.messageService.error(error)
OpenerFails ==
    \E call \in opening :
        /\ opening' = opening \ {call}
        /\ opened' = [count |-> opened.count + 1, uri |-> call.uri,
                      selection |-> call.options.selection,
                      closedEditor |-> call.closedEditor,
                      restored |-> NoViewState, error |-> TRUE]
        /\ UNCHANGED << sessionVars, pureVars >>

Next == Open \/ OnClose \/ OnType \/ SearchComplete \/ SearchFails

Spec == Init /\ [][Next]_vars

\* openFile reads this.filterAndRange, which open and onType write and the
\* completion handlers leave alone, and writes nothing of the session: its
\* interleavings with open, the close callback and onType are those of
\* OpenFileSpec.
OpenFileNext == Open \/ OnClose \/ OnType \/ OpenFile \/ OpenerOpens \/ OpenerFails

\* None of these operations calls the fuzzy primitive on a label or reads the
\* items of a search: one table and one navigation history serve.
OpenFileInit ==
    /\ Init
    /\ navigation = << >>
    /\ \A str \in DOMAIN fuzzy : fuzzy[str] = FuzzyNull

OpenFileSpec == OpenFileInit /\ [][OpenFileNext]_vars

\* C1: results of a search superseded by a newer onType call are never passed
\* to an acceptor: every call of an acceptor is made for the most recent
\* onType call, and the handler of an earlier search returns without a call.
C1_OnlyLatestDelivers ==
    [][accepted'.calls > accepted.calls => accepted'.seq = typed']_vars

C1_Witness ==
    /\ typed = 2
    /\ skipped >= 1
    /\ accepted.calls >= 1
    /\ accepted.seq = 2
    /\ ~accepted.sync
    /\ pending = {}

-----------------------------------------------------------------------------
(* Claims about the lists the completion handler delivers, under Spec.     *)
(* handled.run tells that the latest call of an acceptor was made by a     *)
(* handler: accepted.items is then the list that handler delivered.        *)

\* the file uris of the navigation history that pass the fuzzy test of a filter
MatchingRecent(filter) ==
    {navigation[i] : i \in {k \in 1..Len(navigation) :
        /\ navigation[k].scheme = "file"
        /\ fuzzyTest(filter, uriString(navigation[k]))}}

\* the position of the latest visit of a uri in the navigation history
LastVisit(uri) == SetMax({i \in 1..Len(navigation) : navigation[i] = uri})

\* the uris a search returned that are not among the recently opened ones
FreshResults ==
    {handled.results[i] : i \in 1..Len(handled.results)}
        \ MatchingRecent(handled.search.filter)

\* C12: a list delivered for a search that returned at least one file not yet
\* collected is the matching recently opened items, the most recent first,
\* followed by the remaining results in the order of the comparator; the
\* first of these results, and no other item, has the group label 'file
\* results', and no recently opened item stands after a result.
C12_RecentThenSorted ==
    (handled.run /\ FreshResults # {}) =>
        LET items == accepted.items
            n     == Len(items)
            r     == Cardinality(MatchingRecent(handled.search.filter))
        IN  /\ n = r + Cardinality(FreshResults)
            /\ \A i \in 1..r : items[i].uri \in MatchingRecent(handled.search.filter)
            /\ \A i \in 1..r : \A j \in (i + 1)..r :
                   LastVisit(items[i].uri) > LastVisit(items[j].uri)
            /\ {items[i].uri : i \in (r + 1)..n} = FreshResults
            /\ \A i \in (r + 1)..n : \A j \in (i + 1)..n :
                   compareItemsAt(items[i], items[j], "getLabel", handled.rankedBy,
                                  fuzzy, 1).value <= 0
            /\ \A i \in 1..n : (items[i].groupLabel = "file results") <=> (i = r + 1)

C12_Witness ==
    /\ handled.run
    /\ handled.search.filter = <<"a">>
    /\ handled.results = <<GitA, FileAb, GitA>>
    /\ Len(accepted.items) = 3
    /\ accepted.items[1].uri = FileAb
    /\ accepted.items[1].groupLabel = "recently opened"
    /\ accepted.items[2].uri = FileA
    /\ accepted.items[3].uri = GitA
    /\ accepted.items[3].groupLabel = "file results"

\* C13: no uri string occurs twice in a list passed to an acceptor, whatever
\* the navigation history and the search results repeat, each alone or
\* between them.
C13_NoDuplicateUri ==
    \A i \in 1..Len(accepted.items) : \A j \in 1..Len(accepted.items) :
        i # j => uriString(accepted.items[i].uri) # uriString(accepted.items[j].uri)

C13_Witness ==
    /\ handled.run
    /\ navigation = <<FileA, FileAb, GitA, FileAb>>
    /\ handled.search.filter = <<"b">>
    /\ handled.results = <<FileAb, FileAb, FileA>>
    /\ Len(accepted.items) = 2
    /\ accepted.items[1].uri = FileAb
    /\ accepted.items[2].uri = FileA

-----------------------------------------------------------------------------
(* Claims about the session: open, the close callback, openFile.           *)

\* C14: open() with the dialog open only toggles hideIgnoredFiles and leaves
\* isOpen and filterAndRange as they are; open() with the dialog closed sets
\* hideIgnoredFiles, resets filterAndRange to its default and sets isOpen.
\* Hence every step from closed to open, in any sequence of operations, ends
\* with ignored files hidden, an empty filter and no range.
C14_OpenTogglesOrResets ==
    [][ /\ (Open /\ isOpen) =>
               /\ hideIgnoredFiles' = ~hideIgnoredFiles
               /\ isOpen' = isOpen
               /\ filterAndRange' = filterAndRange
        /\ (Open /\ ~isOpen) =>
               /\ hideIgnoredFiles' = TRUE
               /\ filterAndRange' = filterAndRangeDefault
               /\ isOpen' = TRUE
        /\ (~isOpen /\ isOpen') =>
               /\ hideIgnoredFiles' = TRUE
               /\ filterAndRange'.filter = << >>
               /\ ~filterAndRange'.range.defined ]_vars

\* the dialog was opened anew while the search of the latest onType call, for
\* a filter that is not empty, is still pending
C14_Witness ==
    /\ isOpen
    /\ hideIgnoredFiles
    /\ filterAndRange = filterAndRangeDefault
    /\ ~lastType.made
    /\ \E search \in pending : search.seq = typed /\ search.filter # << >>

\* the selection the latest input of the session asks for
TypedRange ==
    IF lastType.made THEN splitFilterAndRange(lastType.lookFor).range
    ELSE UndefinedRange

\* C15: openFile passes as the selection the range of the latest onType input
\* (none when that input has no location suffix or open() has started a new
\* session since); the view state of a closed editor of the same path is
\* restored only when no selection is requested.
C15_SelectionIsTypedRange ==
    [][ /\ \A call \in opening' \ opening : call.options.selection = TypedRange
        /\ opened'.restored.found =>
               /\ ~opened'.selection.defined
               /\ opened'.restored = opened'.closedEditor
        /\ opened'.selection.defined => ~opened'.restored.found ]_vars

C15_Witness ==
    /\ opened.count = 1
    /\ ~opened.error
    /\ opened.uri = FileA
    /\ lastType.lookFor = <<"b", ":", "2">>
    /\ opened.selection = Point(1, 0)
    /\ opened.closedEditor.found
    /\ ~opened.restored.found

\* a view state is restored for an openFile call without a selection
C15_WitnessRestored ==
    /\ opened.count = 1
    /\ ~opened.selection.defined
    /\ opened.restored.found
    /\ opened.restored.viewState = "git a"

\* C16: whenever a handler delivers search results, the filter compareItems
\* ranks them against (this.filterAndRange.filter when the handler runs) is
\* the filter its search was issued with, in every interleaving of open(),
\* onType(), the close callback and the completions.
C16_RankedByIssuedFilter ==
    (handled.run /\ Cardinality(FreshResults) >= 2) =>
        handled.rankedBy = handled.search.filter

\* C17: once the close callback has run, isOpen is false and the token of the
\* search in flight is cancelled; it stays cancelled until the next onType
\* call, and until then no completion calls an acceptor.
C17_ClosedNeverDelivers ==
    [][ /\ OnClose => (~isOpen' /\ cancelIndicator' \in cancelled')
        /\ (cancelIndicator \in cancelled /\ typed' = typed) =>
               /\ cancelIndicator' \in cancelled'
               /\ accepted' = accepted ]_vars

\* the search of the only onType call completed after the close callback
C17_Witness ==
    /\ ~isOpen
    /\ cancelIndicator \in cancelled
    /\ typed = 1
    /\ pending = {}
    /\ skipped = 1
    /\ accepted.calls = 0

\* C18: when a search that was not cancelled returns the empty list, the
\* acceptor receives one item, the 'No matching results' placeholder that
\* does not run, and none of the recently opened items, whether or not some
\* matched the filter.
C18_NoResultsPlaceholder ==
    (handled.run /\ Len(handled.results) = 0) =>
        /\ Len(accepted.items) = 1
        /\ accepted.items[1].label = <<"No matching results">>
        /\ ~accepted.items[1].runs
        /\ accepted.items[1].uri \notin Uris

C18_Witness ==
    /\ handled.run
    /\ handled.results = << >>
    /\ Len(handled.search.recentlyUsedItems) = 2
    /\ Len(accepted.items) = 1
    /\ ~accepted.items[1].runs

\* the recently opened items of the empty filter: every file uri of the
\* navigation history once, the most recent first, the first with the label
RecentItems(items) ==
    /\ Len(items) = Cardinality(MatchingRecent(<< >>))
    /\ \A i \in 1..Len(items) :
           /\ items[i].uri \in MatchingRecent(<< >>)
           /\ items[i].runs
           /\ (items[i].groupLabel = "recently opened") <=> (i = 1)
           /\ \A j \in (i + 1)..Len(items) :
                  LastVisit(items[i].uri) > LastVisit(items[j].uri)

\* C19: an onType call whose filter is empty starts no search and cancels the
\* search in flight; with a root in the workspace it calls its acceptor once,
\* before it returns, with the recently opened items, and without a root it
\* does not call it. No completion calls it later: an acceptor is called by a
\* completion only for a search that the latest onType call started.
C19_EmptyFilterNoSearch ==
    [][ /\ (typed' > typed /\ filterAndRange'.filter = << >>) =>
               /\ pending' = pending
               /\ cancelIndicator \in cancelled'
               /\ \A search \in pending' : search.seq < typed'
               /\ IF Len(roots) # 0
                  THEN /\ accepted'.calls = accepted.calls + 1
                       /\ accepted'.sync
                       /\ accepted'.seq = typed'
                       /\ RecentItems(accepted'.items)
                  ELSE accepted' = accepted
        /\ (typed' = typed /\ accepted' # accepted) =>
               /\ ~accepted'.sync
               /\ \E search \in pending : search.seq = typed /\ search \notin pending'
      ]_vars

\* the second onType call, for the empty filter, cancelled the search of the
\* first and called its acceptor; the handler of the first search returned
C19_Witness ==
    /\ typed = 2
    /\ filterAndRange.filter = << >>
    /\ lastType.made
    /\ accepted.calls = 1
    /\ accepted.sync
    /\ accepted.seq = 2
    /\ Len(accepted.items) = 2
    /\ skipped = 1
    /\ pending = {}

====
